---- MODULE Spec2Model ----
(***************************************************************************)
(* Model of the realtime cartoon filter (React component App).             *)
(*                                                                         *)
(* The component is modelled under React's automatic batching: a state     *)
(* update issued outside a discrete DOM event (an animation-frame          *)
(* callback, a timer, an awaited promise, a mount effect) is queued and    *)
(* applied by a later Render; the passive effects of that render run in a  *)
(* later FlushEffects.  Animation-frame callbacks may fire between these   *)
(* steps.  An update issued by a discrete DOM event (click, change,        *)
(* resize) is rendered and its effects are flushed before the handler's    *)
(* task ends, so such a handler is one atomic action.                      *)
(*                                                                         *)
(* Numbers: intensity is kept in tenths (0..10 for 0.0..1.0), times in ms. *)
(*                                                                         *)
(* Record constructors and enumerated sets list their fields and elements  *)
(* in the order TLC normalizes them to, so that a value shared by TLC's    *)
(* workers is never re-sorted in place.                                    *)
(***************************************************************************)
EXTENDS Integers, Sequences, FiniteSets, TLC

\* ------------------------------------------------------------- bounds
\* Longest queue of functional frameSkip updates awaiting a Render.
MaxPending == 2
\* Animation-frame handles that can be outstanding at once.
NumLoopIds == 3
\* Camera streams are numbered 1..MaxStreams (0 is null).
MaxStreams == 2
\* getUserMedia calls of startStream that can be unsettled at once.
MaxAcquiring == 1
\* Cameras are numbered 1..MaxDevices (0 is null).
MaxDevices == 2
\* Ticks stop queueing increments once the queued updates bring frameSkip to this value.
FrameSkipCap == 5
\* The sigma slider offers 10 + 5*k, k in 0..MaxSigmaSteps (the real slider goes to 200).
MaxSigmaSteps == 1
\* Largest width and height of the small video resolutions.
MaxDim == 5

\* ------------------------------------------------- program constants
HighLatencyMs == 100
LowLatencyMs == 50
MaxFrameSkip == 4
MinKernel == 3
MobileFrameSkip == 2
DesktopFrameSkip == 1

Max(a, b) == IF a >= b THEN a ELSE b

Qualities == {"high", "medium", "low"}

\* ------------------------------------------------- filter parameters
\* useState initial value of filterParams.
InitialFilterParams ==
    [bilateralD |-> 7, bilateralSigmaColor |-> 75, bilateralSigmaSpace |-> 75,
     medianBlur |-> 5, adaptiveBlockSize |-> 9, adaptiveC |-> 2, intensity |-> 10]

PresetNames == {"soft", "normal", "strong", "sketch"}

filterPresets ==
    [soft   |-> [bilateralD |-> 15, bilateralSigmaColor |-> 120, bilateralSigmaSpace |-> 120,
                 medianBlur |-> 7, adaptiveBlockSize |-> 11, adaptiveC |-> 3, intensity |-> 6],
     normal |-> [bilateralD |-> 7, bilateralSigmaColor |-> 75, bilateralSigmaSpace |-> 75,
                 medianBlur |-> 5, adaptiveBlockSize |-> 9, adaptiveC |-> 2, intensity |-> 10],
     strong |-> [bilateralD |-> 5, bilateralSigmaColor |-> 50, bilateralSigmaSpace |-> 50,
                 medianBlur |-> 3, adaptiveBlockSize |-> 7, adaptiveC |-> 1, intensity |-> 10],
     sketch |-> [bilateralD |-> 3, bilateralSigmaColor |-> 30, bilateralSigmaSpace |-> 30,
                 medianBlur |-> 3, adaptiveBlockSize |-> 5, adaptiveC |-> 0, intensity |-> 10]]

\* The values an <input type="range" min max step> can deliver.
RangeValues(lo, hi, step) == {v \in lo..hi : (v - lo) % step = 0}

\* An intensity slider with max="2".
IntensitySliderWide == RangeValues(0, 20, 1)

\* The intensity slider: min="0" max="1" step="0.1", in tenths.
IntensitySlider == RangeValues(0, 10, 1)
\* A smoothing-diameter slider with step="1".
BilateralDSliderStepOne == RangeValues(3, 20, 1)


BilateralDSlider == RangeValues(3, 20, 2)
SigmaSlider == RangeValues(10, 10 + 5 * MaxSigmaSteps, 5)
MedianBlurSlider == RangeValues(3, 15, 2)
AdaptiveBlockSizeSlider == RangeValues(3, 15, 2)
AdaptiveCSlider == RangeValues(0, 10, 1)

\* -------------------------------------------------- tier scaling
\* Math.max(3, Math.floor(k / 2))
HalfKernel(k) == Max(MinKernel, k \div 2)

\* Math.max(3, Math.floor(k * 0.75))
ThreeQuarterKernel(k) == Max(MinKernel, (k * 3) \div 4)

\* An adjustment that also shrinks the smoothing diameter on the high tier.
AdjustedParamsScalesHigh(p, q) ==
    IF q = "low"
    THEN [p EXCEPT !.bilateralD = HalfKernel(p.bilateralD),
                   !.medianBlur = HalfKernel(p.medianBlur),
                   !.adaptiveBlockSize = HalfKernel(p.adaptiveBlockSize)]
    ELSE [p EXCEPT !.bilateralD = ThreeQuarterKernel(p.bilateralD)]


\* adjustedParams of cartoonizeImage
AdjustedParams(p, q) ==
    IF q = "low"
    THEN [p EXCEPT !.bilateralD = HalfKernel(p.bilateralD),
                   !.medianBlur = HalfKernel(p.medianBlur),
                   !.adaptiveBlockSize = HalfKernel(p.adaptiveBlockSize)]
    ELSE IF q = "medium"
    THEN [p EXCEPT !.bilateralD = ThreeQuarterKernel(p.bilateralD)]
    ELSE p

\* A processing resolution that rounds up.
ProcessSizeRoundsUp(n, q) ==
    IF q = "low" THEN (n + 1) \div 2
    ELSE IF q = "medium" THEN (n * 3 + 3) \div 4
    ELSE n

\* Processing resolution of draw: Math.floor(width / 2), Math.floor(width * 0.75).
ProcessSize(n, q) ==
    IF q = "low" THEN n \div 2
    ELSE IF q = "medium" THEN (n * 3) \div 4
    ELSE n

\* ------------------------------------------------------ image buffers
\* A cv.Mat: size, channel count and a symbolic description of its pixels.
Mat(w, h, ch, data) == [w |-> w, h |-> h, ch |-> ch, data |-> data]

\* What cv.medianBlur accepts as ksize: odd and greater than 1.
MedianBlurAccepts(k) == k % 2 = 1 /\ k > 1

\* What cv.adaptiveThreshold accepts as blockSize: odd and greater than 1.
AdaptiveThresholdAccepts(b) == b % 2 = 1 /\ b > 1

\* The cv calls of cartoonizeImage's try block, in program order, and the
\* Mat each one fills (allocated by new cv.Mat() right before the call).
StepName == <<"toColor3", "smooth", "gray", "denoise", "binarize", "expand", "and", "blend">>
BufName == <<"imgRGB", "imgColor", "imgGray", "imgBlur", "imgEdge", "imgEdgeColor", "cartoon", "blended">>

\* A primitive that the environment makes throw in one invocation ("none": no such fault).
StageFaults == {"none"} \cup {StepName[k] : k \in 1..8}

\* A cartoonizeImage that blends whatever the intensity.
LastStepAlwaysBlends(p) == IF p.intensity = 0 THEN 1 ELSE 8

\* A cartoonizeImage without the intensity === 0 return.
LastStepNoShortCut(p) == IF p.intensity < 10 THEN 8 ELSE 7

\* The last cv call of the try block that the invocation reaches when nothing throws:
\* the color conversion alone when intensity === 0, addWeighted when intensity < 1.0,
\* bitwise_and otherwise.
LastStep(p) == IF p.intensity = 0 THEN 1 ELSE IF p.intensity < 10 THEN 8 ELSE 7

\* Whether call k throws: the injected fault, or an argument the primitive rejects.
StepThrows(k, a, sf) ==
    \/ sf = StepName[k]
    \/ k = 4 /\ ~MedianBlurAccepts(a.medianBlur)
    \/ k = 5 /\ ~AdaptiveThresholdAccepts(a.adaptiveBlockSize)

\* The first call that throws, 0 when none does.
FirstThrow(p, a, sf) ==
    LET T == {k \in 1..LastStep(p) : StepThrows(k, a, sf)}
    IN IF T = {} THEN 0 ELSE CHOOSE k \in T : \A j \in T : k <= j

\* A pipeline whose grayscale conversion reads the smoothed imgColor.
StepCallGrayOfSmoothed(k, p, a, img) ==
    CASE k = 1 -> [fn |-> IF img.ch # 3 THEN "cvtColor:RGBA2RGB" ELSE "copyTo",
                   from |-> <<"img">>, args |-> <<>>]
      [] k = 2 -> [fn |-> "bilateralFilter", from |-> <<"imgRGB">>,
                   args |-> <<a.bilateralD, a.bilateralSigmaColor, a.bilateralSigmaSpace>>]
      [] k = 3 -> [fn |-> "cvtColor:RGB2GRAY", from |-> <<"imgColor">>, args |-> <<>>]
      [] k = 4 -> [fn |-> "medianBlur", from |-> <<"imgGray">>, args |-> <<a.medianBlur>>]
      [] k = 5 -> [fn |-> "adaptiveThreshold", from |-> <<"imgBlur">>,
                   args |-> <<255, a.adaptiveBlockSize, a.adaptiveC>>]
      [] k = 6 -> [fn |-> "cvtColor:GRAY2RGB", from |-> <<"imgEdge">>, args |-> <<>>]
      [] k = 7 -> [fn |-> "bitwise_and", from |-> <<"imgColor", "imgEdgeColor">>, args |-> <<>>]
      [] OTHER -> [fn |-> "addWeighted", from |-> <<"imgRGB", "cartoon">>,
                   args |-> <<10 - p.intensity, p.intensity>>]

\* The call record of step k: function, input Mats and numeric arguments.
StepCall(k, p, a, img) ==
    CASE k = 1 -> [fn |-> IF img.ch # 3 THEN "cvtColor:RGBA2RGB" ELSE "copyTo",
                   from |-> <<"img">>, args |-> <<>>]
      [] k = 2 -> [fn |-> "bilateralFilter", from |-> <<"imgRGB">>,
                   args |-> <<a.bilateralD, a.bilateralSigmaColor, a.bilateralSigmaSpace>>]
      [] k = 3 -> [fn |-> "cvtColor:RGB2GRAY", from |-> <<"imgRGB">>, args |-> <<>>]
      [] k = 4 -> [fn |-> "medianBlur", from |-> <<"imgGray">>, args |-> <<a.medianBlur>>]
      [] k = 5 -> [fn |-> "adaptiveThreshold", from |-> <<"imgBlur">>,
                   args |-> <<255, a.adaptiveBlockSize, a.adaptiveC>>]
      [] k = 6 -> [fn |-> "cvtColor:GRAY2RGB", from |-> <<"imgEdge">>, args |-> <<>>]
      [] k = 7 -> [fn |-> "bitwise_and", from |-> <<"imgColor", "imgEdgeColor">>, args |-> <<>>]
      [] OTHER -> [fn |-> "addWeighted", from |-> <<"imgRGB", "cartoon">>,
                   args |-> <<10 - p.intensity, p.intensity>>]

\* The pixels of each Mat of the pipeline, as the sequence of operations that made them.
RgbData(img) == IF img.ch # 3 THEN img.data \o <<"toColor3">> ELSE img.data
ColorData(img, a) ==
    RgbData(img) \o <<"smooth", ToString(a.bilateralD), ToString(a.bilateralSigmaColor),
                      ToString(a.bilateralSigmaSpace)>>
EdgeData(img, a) ==
    RgbData(img) \o <<"gray", "denoise", ToString(a.medianBlur), "binarize",
                      ToString(a.adaptiveBlockSize), ToString(a.adaptiveC), "expand">>
CartoonData(img, a) == ColorData(img, a) \o EdgeData(img, a) \o <<"and">>
BlendData(img, p, a) ==
    RgbData(img) \o CartoonData(img, a) \o <<"blend", ToString(10 - p.intensity), ToString(p.intensity)>>

\* A catch block that forgets img.copyTo(result): the new cv.Mat() is returned empty.
StageFallbackEmpty(img, k, calls) ==
    [calls |-> calls, ret |-> Mat(0, 0, 0, <<>>), path |-> "fallback",
     live |-> {BufName[j] : j \in 1..k}]

\* A catch block that returns the partially built imgRGB instead of a copy of the input.
StageFallbackPartial(img, k, calls) ==
    [calls |-> calls, ret |-> Mat(img.w, img.h, 3, RgbData(img)), path |-> "fallback",
     live |-> {BufName[j] : j \in 2..k}]

\* catch block of cartoonizeImage: a new Mat holding a copy of the input; the Mats
\* allocated before the throw are not deleted.
StageFallback(img, k, calls) ==
    [calls |-> calls \o <<[fn |-> "copyTo", from |-> <<"img">>, args |-> <<>>]>>, ret |-> img, path |-> "fallback",
     live |-> {BufName[j] : j \in 1..k}]

\* function cartoonizeImage(img), with the closure's filterParams p and processingQuality q;
\* sf is the primitive the environment makes throw.  The result names the returned Mat,
\* the return path, the cv calls made and the Mats allocated by the invocation that are
\* still live when it returns, the returned one apart.
cartoonizeImage(img, p, q, sf) ==
    LET a == AdjustedParams(p, q)
        t == FirstThrow(p, a, sf)
        n == IF t = 0 THEN LastStep(p) ELSE t
        calls == [k \in 1..n |-> StepCall(k, p, a, img)]
    IN IF t # 0 THEN StageFallback(img, t, calls)
       ELSE IF p.intensity = 0
       THEN [calls |-> calls \o <<[fn |-> "copyTo", from |-> <<"img">>, args |-> <<>>]>>, ret |-> img,
             path |-> "zero", live |-> {}]
       ELSE IF p.intensity < 10
       THEN [calls |-> calls, ret |-> Mat(img.w, img.h, 3, BlendData(img, p, a)),
             path |-> "blend", live |-> {}]
       ELSE [calls |-> calls, ret |-> Mat(img.w, img.h, 3, CartoonData(img, a)),
             path |-> "full", live |-> {}]

\* ---------------------------------------------------------------- state
VARIABLES
    \* React state cells (the values of the last committed render)
    cvReady, selectedDeviceId, stream, isMobile, filterParams, isProcessing,
    frameSkip, processingQuality, lastProcessTime,
    \* updates queued by setState calls and not yet rendered, per cell
    pending,
    \* frameSkipCountRef.current
    frameSkipCountRef,
    \* the <video> element: readyState >= 2, videoWidth, videoHeight
    video,
    \* the <canvas> element's width and height
    canvas,
    \* the filter effect as last run: whether it started a loop, the loop's
    \* animation-frame handle (requestId) and the values its closures captured
    effect,
    \* the animation-frame callbacks that are scheduled: handle and closure
    raf,
    \* the window: component mounted, user agent matches the mobile pattern,
    \* innerWidth <= 768
    env,
    \* what the step just taken did, when it was a draw() (NoTick otherwise)
    lastTick,
    \* ready ticks consumed since the last tick that passed the skip check, and
    \* whether frameSkip stayed the same throughout
    skipRun,
    \* the camera: the acquired MediaStreams whose tracks have not been stopped, and
    \* the getUserMedia calls of startStream that have not settled
    camera

vars == <<cvReady, selectedDeviceId, stream, isMobile, filterParams, isProcessing,
          frameSkip, processingQuality, lastProcessTime, pending, frameSkipCountRef,
          video, canvas, effect, raf, env, lastTick, skipRun, camera>>

reactState == <<cvReady, selectedDeviceId, stream, isMobile, filterParams, isProcessing,
                frameSkip, processingQuality, lastProcessTime>>

NoMat == Mat(0, 0, 0, <<>>)
NoStage == [calls |-> <<>>, ret |-> NoMat, path |-> "none", live |-> {}]

\* The values draw() and cartoonizeImage() read from the render that created them.
Closure(cv, dev, st, mob, fp, fs, q, proc) ==
    [cvReady |-> cv, selectedDeviceId |-> dev, stream |-> st, isMobile |-> mob,
     filterParams |-> fp, isProcessing |-> proc, frameSkip |-> fs, processingQuality |-> q]

CurrentClosure ==
    Closure(cvReady, selectedDeviceId, stream, isMobile, filterParams, frameSkip,
            processingQuality, isProcessing)

\* The dependency array of the filter effect.
Deps(c) ==
    <<c.cvReady, c.selectedDeviceId, c.stream, c.filterParams, c.frameSkip,
      c.processingQuality, c.isMobile>>

NoPending ==
    [cvReady |-> <<>>, selectedDeviceId |-> <<>>, stream |-> <<>>, isMobile |-> <<>>,
     isProcessing |-> <<>>, frameSkip |-> <<>>, processingQuality |-> <<>>,
     lastProcessTime |-> <<>>]

NoTick ==
    [sf |-> "none", live |-> {}, fs |-> 0,
     c |-> Closure(FALSE, 0, 0, FALSE, InitialFilterParams, 1, "medium", FALSE),
     id |-> -1, outcome |-> "none",
     current |-> TRUE, stale |-> FALSE, df |-> "none", src |-> NoMat, stage |-> NoStage,
     shown |-> NoMat, elapsed |-> 0, ctl |-> "none", gap |-> -1]

\* State after the first render: the useState initial values, no effect run yet.
Init ==
    /\ cvReady = FALSE
    /\ selectedDeviceId = 0
    /\ stream = 0
    /\ isMobile = FALSE
    /\ filterParams = InitialFilterParams
    /\ isProcessing = FALSE
    /\ frameSkip = 1
    /\ processingQuality = "medium"
    /\ lastProcessTime = 0
    /\ pending = NoPending
    /\ frameSkipCountRef = 0
    /\ video = [w |-> 0, h |-> 0, ready |-> FALSE]
    /\ canvas = [w |-> 300, h |-> 150]
    /\ effect = [c |-> Closure(FALSE, 0, 0, FALSE, InitialFilterParams, 1, "medium", FALSE), id |-> 0,
                 active |-> FALSE]
    /\ raf = {}
    /\ env \in [mounted : {FALSE}, ua : BOOLEAN, narrow : BOOLEAN]
    /\ lastTick = NoTick
    /\ skipRun = [n |-> 0, fs |-> 0]
    /\ camera = [live |-> {}, acquiring |-> 0]

\* ------------------------------------------------- React: queued updates
SetOp(v) == [v |-> v, k |-> "set"]
IncOp == [v |-> 0, k |-> "inc"]
DecOp == [v |-> 0, k |-> "dec"]

\* One queued setFrameSkip update applied to the previous value:
\* setFrameSkip(n), setFrameSkip(prev => prev + 1), setFrameSkip(prev => Math.max(1, prev - 1)).
ApplyFrameSkipOp(prev, op) ==
    IF op.k = "set" THEN op.v
    ELSE IF op.k = "inc" THEN prev + 1
    ELSE Max(1, prev - 1)

RECURSIVE ApplyFrameSkipOps(_, _)
ApplyFrameSkipOps(prev, ops) ==
    IF ops = <<>> THEN prev
    ELSE ApplyFrameSkipOps(ApplyFrameSkipOp(prev, Head(ops)), Tail(ops))

\* A cell whose queue holds plain values: the last one wins.
Rendered(cur, q) == IF q = <<>> THEN cur ELSE q[Len(q)]

\* The filter effect's dependencies differ from those it last ran with.
Dirty == Deps(CurrentClosure) # Deps(effect.c)

\* The handles in use: scheduled callbacks and the running loop's requestId.
UsedIds(callbacks) == {r.id : r \in callbacks} \cup {effect.id}

\* A cleanup whose cancelAnimationFrame leaves the callback scheduled.
CancelAnimationFrameNoop(callbacks, id) == callbacks

\* cancelAnimationFrame(requestId) in the effect's cleanup.
CancelAnimationFrame(callbacks, id) == {r \in callbacks : r.id # id}

\* An effect that starts its loop without the previous run's cleanup.
RunFilterEffectNoCleanup(c) ==
    LET free == (0..(NumLoopIds - 1)) \ UsedIds(raf)
    IN IF c.cvReady /\ c.stream # 0
       THEN /\ free # {}
            /\ LET id == CHOOSE i \in free : \A j \in free : i <= j
               IN /\ effect' = [c |-> c, id |-> id, active |-> TRUE]
                  /\ raf' = raf \cup {[c |-> c, id |-> id]}
       ELSE /\ effect' = [c |-> c, id |-> effect.id, active |-> FALSE]
            /\ raf' = raf

\* The filter effect's cleanup followed by its body, with the values c of the new
\* render: the old loop's scheduled callback is cancelled; a new loop starts
\* (requestAnimationFrame(draw)) when cvReady and stream hold.
RunFilterEffect(c) ==
    LET kept == IF effect.active THEN CancelAnimationFrame(raf, effect.id) ELSE raf
        free == (0..(NumLoopIds - 1)) \ UsedIds(kept)
    IN IF c.cvReady /\ c.stream # 0
       THEN /\ free # {}
            /\ LET id == CHOOSE i \in free : \A j \in free : i <= j
               IN /\ effect' = [c |-> c, id |-> id, active |-> TRUE]
                  /\ raf' = kept \cup {[c |-> c, id |-> id]}
       ELSE /\ effect' = [c |-> c, id |-> effect.id, active |-> FALSE]
            /\ raf' = kept

\* A synchronous (discrete-event) render: the effect re-runs when a dependency changed.
SyncEffects(c, force) ==
    IF force \/ Deps(c) # Deps(effect.c)
    THEN RunFilterEffect(c)
    ELSE UNCHANGED <<effect, raf>>

\* The startStream effect of a render with the values c, after a render with the
\* values prev: it runs when the selected device or the device class changed, returns
\* at once without a device, and otherwise stops the tracks of the render's stream
\* and calls getUserMedia.
StartStream(cam, prev, c) ==
    IF c.selectedDeviceId = prev.selectedDeviceId /\ c.isMobile = prev.isMobile
    THEN cam
    ELSE IF c.selectedDeviceId = 0
    THEN cam
    ELSE [live |-> cam.live \ {c.stream}, acquiring |-> cam.acquiring + 1]

\* A synchronous render with the values c: the effects of the last render that have
\* not run yet run first.
SyncStartStream(cam, c) ==
    StartStream(StartStream(cam, effect.c, CurrentClosure), CurrentClosure, c)

\* React renders the queued updates of every cell in one batch.
Render ==
    /\ env.mounted
    /\ pending # NoPending
    /\ ~Dirty
    /\ cvReady' = Rendered(cvReady, pending.cvReady)
    /\ selectedDeviceId' = Rendered(selectedDeviceId, pending.selectedDeviceId)
    /\ stream' = Rendered(stream, pending.stream)
    /\ isMobile' = Rendered(isMobile, pending.isMobile)
    /\ isProcessing' = Rendered(isProcessing, pending.isProcessing)
    /\ processingQuality' = Rendered(processingQuality, pending.processingQuality)
    /\ lastProcessTime' = Rendered(lastProcessTime, pending.lastProcessTime)
    /\ frameSkip' = ApplyFrameSkipOps(frameSkip, pending.frameSkip)
    /\ pending' = NoPending
    /\ lastTick' = NoTick
    /\ UNCHANGED <<filterParams, frameSkipCountRef, video, canvas, effect, raf, env, skipRun,
                   camera>>

\* The passive effects of the last render run: cleanup, then the effect body.
FlushEffects ==
    /\ Dirty
    /\ RunFilterEffect(CurrentClosure)
    /\ camera' = StartStream(camera, effect.c, CurrentClosure)
    /\ camera'.acquiring <= MaxAcquiring
    /\ lastTick' = NoTick
    /\ UNCHANGED <<reactState, pending, frameSkipCountRef, video, canvas, env,
                   skipRun>>

\* --------------------------------------------- mount and device class
\* checkMobile's test: window.innerWidth <= 768 or a mobile user agent.
IsMobileDevice(e) == e.narrow \/ e.ua

SeedFrameSkip(m) == IF m THEN MobileFrameSkip ELSE DesktopFrameSkip
SeedQuality(m) == IF m THEN "low" ELSE "high"

\* The mount effects: checkMobile() runs once; its updates are queued.
Mount ==
    /\ ~env.mounted
    /\ env' = [env EXCEPT !.mounted = TRUE]
    /\ LET m == IsMobileDevice(env)
       IN pending' = [pending EXCEPT !.isMobile = <<m>>,
                                     !.frameSkip = <<SetOp(SeedFrameSkip(m))>>,
                                     !.processingQuality = <<SeedQuality(m)>>]
    /\ lastTick' = NoTick
    /\ UNCHANGED <<reactState, frameSkipCountRef, video, canvas, effect, raf,
                   skipRun, camera>>

\* window 'resize' -> checkMobile(): a discrete event, rendered synchronously.
checkMobile(narrow) ==
    /\ env.mounted
    /\ env' = [env EXCEPT !.narrow = narrow]
    /\ LET m == IsMobileDevice(env')
       IN /\ isMobile' = m
          /\ frameSkip' = SeedFrameSkip(m)
          /\ processingQuality' = SeedQuality(m)
          /\ pending' = [pending EXCEPT !.isMobile = <<>>, !.frameSkip = <<>>,
                                        !.processingQuality = <<>>]
          /\ SyncEffects(Closure(cvReady, selectedDeviceId, stream, m, filterParams,
                                 SeedFrameSkip(m), SeedQuality(m), isProcessing), FALSE)
          /\ camera' = SyncStartStream(camera, Closure(cvReady, selectedDeviceId, stream, m,
                                                   filterParams, SeedFrameSkip(m),
                                                   SeedQuality(m), isProcessing))
          /\ camera'.acquiring <= MaxAcquiring
    /\ lastTick' = NoTick
    /\ UNCHANGED <<cvReady, selectedDeviceId, stream, filterParams, isProcessing,
                   lastProcessTime, frameSkipCountRef, video, canvas, skipRun>>

\* waitForOpenCV finds cv loaded: setCvReady(true).
OpenCVReady ==
    /\ env.mounted
    /\ ~cvReady
    /\ pending.cvReady = <<>>
    /\ pending' = [pending EXCEPT !.cvReady = <<TRUE>>]
    /\ lastTick' = NoTick
    /\ UNCHANGED <<reactState, frameSkipCountRef, video, canvas, effect, raf, env, skipRun,
                   camera>>

\* init(): permission granted and devices listed: setSelectedDeviceId(defaultDeviceId).
CameraInitialized ==
    /\ env.mounted
    /\ selectedDeviceId = 0
    /\ pending.selectedDeviceId = <<>>
    /\ pending' = [pending EXCEPT !.selectedDeviceId = <<1>>]
    /\ lastTick' = NoTick
    /\ UNCHANGED <<reactState, frameSkipCountRef, video, canvas, effect, raf, env, skipRun,
                   camera>>

\* startStream(): getUserMedia resolved with a new stream: setStream(newStream).
StreamAcquired ==
    /\ env.mounted
    /\ camera.acquiring > 0
    /\ LET fresh == {s \in 1..MaxStreams :
                        s # stream /\ <<s>> # pending.stream /\ s \notin camera.live}
       IN /\ fresh # {}
          /\ \E new \in {CHOOSE s \in fresh : \A t \in fresh : s <= t} :
                 /\ pending' = [pending EXCEPT !.stream = <<new>>]
                 /\ camera' = [live |-> camera.live \cup {new},
                               acquiring |-> camera.acquiring - 1]
    /\ lastTick' = NoTick
    /\ UNCHANGED <<reactState, frameSkipCountRef, video, canvas, effect, raf, env, skipRun>>

\* <select onChange> / switchCamera: setSelectedDeviceId(another device) from a
\* discrete event; the render's startStream and filter effects run at once.
SelectDevice(d) ==
    /\ env.mounted
    /\ selectedDeviceId # 0
    /\ selectedDeviceId # d
    /\ selectedDeviceId' = d
    /\ pending' = [pending EXCEPT !.selectedDeviceId = <<>>]
    /\ SyncEffects(Closure(cvReady, d, stream, isMobile, filterParams, frameSkip,
                           processingQuality, isProcessing), FALSE)
    /\ camera' = SyncStartStream(camera,
                             Closure(cvReady, d, stream, isMobile, filterParams, frameSkip,
                                     processingQuality, isProcessing))
    /\ camera'.acquiring <= MaxAcquiring
    /\ lastTick' = NoTick
    /\ UNCHANGED <<cvReady, stream, isMobile, filterParams, isProcessing, frameSkip,
                   processingQuality, lastProcessTime, frameSkipCountRef, video, canvas,
                   env, skipRun>>

\* 'fullscreenchange' -> setIsFullscreen(the other value): isFullscreen is a
\* dependency of startStream only, which runs again with the rendered values.
FullscreenChange ==
    /\ env.mounted
    /\ selectedDeviceId # 0
    /\ \E cam \in {StartStream(camera, effect.c, CurrentClosure)} :
           camera' = [live |-> cam.live \ {stream}, acquiring |-> cam.acquiring + 1]
    /\ camera'.acquiring <= MaxAcquiring
    /\ lastTick' = NoTick
    /\ UNCHANGED <<reactState, pending, frameSkipCountRef, video, canvas, effect, raf, env,
                   skipRun>>

\* startStream(): getUserMedia rejected, and so did the retry without a device id.
AcquireFailed ==
    /\ env.mounted
    /\ camera.acquiring > 0
    /\ camera' = [camera EXCEPT !.acquiring = @ - 1]
    /\ lastTick' = NoTick
    /\ UNCHANGED <<reactState, pending, frameSkipCountRef, video, canvas, effect, raf, env,
                   skipRun>>


\* The camera re-initialisation button: the stream is stopped and dropped.
ReinitCamera ==
    /\ env.mounted
    /\ stream' = 0
    /\ selectedDeviceId' = 0
    /\ pending' = [pending EXCEPT !.selectedDeviceId = <<>>,
                                  !.stream = IF stream # 0 THEN <<>> ELSE @]
    /\ SyncEffects(Closure(cvReady, 0, 0, isMobile, filterParams, frameSkip,
                           processingQuality, isProcessing), FALSE)
    /\ camera' = SyncStartStream([camera EXCEPT !.live = @ \ {stream}],
                             Closure(cvReady, 0, 0, isMobile, filterParams, frameSkip,
                                     processingQuality, isProcessing))
    /\ camera'.acquiring <= MaxAcquiring
    /\ lastTick' = NoTick
    /\ UNCHANGED <<cvReady, isMobile, filterParams, isProcessing, frameSkip,
                   processingQuality, lastProcessTime, frameSkipCountRef, video, canvas,
                   env, skipRun>>

\* ------------------------------------------------------- configuration
\* A quality button that toggles between high and medium.
NextQualityToggles(q) == IF q = "high" THEN "medium" ELSE "high"

\* The quality button: high -> medium -> low -> high.
NextQuality(q) == IF q = "high" THEN "medium" ELSE IF q = "medium" THEN "low" ELSE "high"

CycleQuality ==
    /\ env.mounted
    /\ processingQuality' = NextQuality(processingQuality)
    /\ pending' = [pending EXCEPT !.processingQuality = <<>>]
    /\ SyncEffects(Closure(cvReady, selectedDeviceId, stream, isMobile, filterParams,
                           frameSkip, NextQuality(processingQuality), isProcessing), FALSE)
    /\ camera' = SyncStartStream(camera,
                             Closure(cvReady, selectedDeviceId, stream, isMobile, filterParams,
                                     frameSkip, NextQuality(processingQuality), isProcessing))
    /\ camera'.acquiring <= MaxAcquiring
    /\ lastTick' = NoTick
    /\ UNCHANGED <<cvReady, selectedDeviceId, stream, isMobile, filterParams, isProcessing,
                   frameSkip, lastProcessTime, frameSkipCountRef, video, canvas, env, skipRun>>

\* setFilterParams(...) from a click or a slider change: the new object is a new
\* dependency value whatever it holds, so the effect re-runs.
SetFilterParams(fp) ==
    /\ env.mounted
    /\ filterParams' = fp
    /\ SyncEffects(Closure(cvReady, selectedDeviceId, stream, isMobile, fp, frameSkip,
                           processingQuality, isProcessing), TRUE)
    /\ camera' = SyncStartStream(camera,
                             Closure(cvReady, selectedDeviceId, stream, isMobile, fp, frameSkip,
                                     processingQuality, isProcessing))
    /\ camera'.acquiring <= MaxAcquiring
    /\ lastTick' = NoTick
    /\ UNCHANGED <<cvReady, selectedDeviceId, stream, isMobile, isProcessing, frameSkip,
                   processingQuality, lastProcessTime, pending, frameSkipCountRef, video,
                   canvas, env, skipRun>>

applyPreset(name) == SetFilterParams(filterPresets[name])

SetIntensity(v) == SetFilterParams([filterParams EXCEPT !.intensity = v])
SetBilateralD(v) == SetFilterParams([filterParams EXCEPT !.bilateralD = v])
SetSigma(v) ==
    SetFilterParams([filterParams EXCEPT !.bilateralSigmaColor = v, !.bilateralSigmaSpace = v])
SetMedianBlur(v) == SetFilterParams([filterParams EXCEPT !.medianBlur = v])
SetAdaptiveBlockSize(v) == SetFilterParams([filterParams EXCEPT !.adaptiveBlockSize = v])
SetAdaptiveC(v) == SetFilterParams([filterParams EXCEPT !.adaptiveC = v])

\* ------------------------------------------------------------ the loop
\* What the environment decides in one tick: the primitive of cartoonizeImage that
\* throws, the event that befalls draw itself, and the measured time in ms.
\*   noCtx: getContext('2d') returns null      capture: drawImage/getImageData throws
\*   empty: src.empty()                         resize, imshow: that cv call throws
DrawFaults == {"none", "noCtx", "capture", "empty", "resize", "imshow"}

\* An adjustment that does not look at isMobile.
AdjustmentAnyDevice(c, elapsed) ==
    IF elapsed > HighLatencyMs
    THEN IF c.frameSkip < MaxFrameSkip THEN "inc" ELSE "none"
    ELSE IF elapsed < LowLatencyMs /\ c.frameSkip > 1 THEN "dec"
    ELSE "none"

\* An adjustment whose tests read a frameSkip one above the one the skip test read.
AdjustmentRereads(c, elapsed) ==
    IF c.isMobile /\ elapsed > HighLatencyMs
    THEN IF c.frameSkip + 1 < MaxFrameSkip THEN "inc" ELSE "none"
    ELSE IF c.isMobile /\ elapsed < LowLatencyMs /\ c.frameSkip + 1 > 1 THEN "dec"
    ELSE "none"

\* An adjustment whose thresholds include 100 and 50.
AdjustmentInclusive(c, elapsed) ==
    IF c.isMobile /\ elapsed >= HighLatencyMs
    THEN IF c.frameSkip < MaxFrameSkip THEN "inc" ELSE "none"
    ELSE IF c.isMobile /\ elapsed <= LowLatencyMs /\ c.frameSkip > 1 THEN "dec"
    ELSE "none"

\* The frameSkip adjustment at the end of a processed draw(), from the closure's
\* isMobile and frameSkip and the measured processingTime.
Adjustment(c, elapsed) ==
    IF c.isMobile /\ elapsed > HighLatencyMs
    THEN IF c.frameSkip < MaxFrameSkip THEN "inc" ELSE "none"
    ELSE IF c.isMobile /\ elapsed < LowLatencyMs /\ c.frameSkip > 1 THEN "dec"
    ELSE "none"

\* A skip test with <= in place of <.
SkipsTickInclusive(count, c) == count + 1 <= c.frameSkip

\* The skip test: frameSkipCountRef.current++ ; if (frameSkipCountRef.current < frameSkip) skip.
SkipsTick(count, c) == count + 1 < c.frameSkip

\* An early return of draw() that forgets requestAnimationFrame(draw).
EarlyDrawStops(outcome, count, cvs, procSets) ==
    [live |-> {}, canvas |-> cvs, outcome |-> outcome, src |-> NoMat,
     stage |-> NoStage, shown |-> NoMat, ctl |-> "none", count |-> count, procSets |-> procSets,
     timed |-> FALSE, resched |-> FALSE]

\* A draw() that ended before or without cartoonizeImage.
EarlyDraw(outcome, count, cvs, procSets) ==
    [live |-> {}, canvas |-> cvs, outcome |-> outcome, src |-> NoMat,
     stage |-> NoStage, shown |-> NoMat, ctl |-> "none", count |-> count, procSets |-> procSets,
     timed |-> FALSE, resched |-> TRUE]

\* A draw() that shows the result at the processing size.
UpsamplesNever(pw, ph, vid) == FALSE

\* if (processWidth !== width || processHeight !== height): cv.resize before cv.imshow.
Upsamples(pw, ph, vid) == pw # vid.w \/ ph # vid.h

\* A draw() in which an error inside cartoonizeImage reaches draw's own catch:
\* nothing is shown, timed or adjusted.
ProcessFrameRethrows(c, vid, in, pw, ph, sized) ==
    LET src == Mat(pw, ph, 4, <<"frame">>)
        st == cartoonizeImage(src, c.filterParams, c.processingQuality, in.sf)
        upsample == Upsamples(pw, ph, vid)
        threw == \/ st.path = "fallback"
                 \/ upsample /\ in.df \in {"resize", "imshow"}
                 \/ ~upsample /\ in.df = "imshow"
    IN [live |-> IF threw
                 THEN st.live \cup {"src", "result"} \cup (IF upsample THEN {"resized"} ELSE {})
                 ELSE st.live,
        canvas |-> sized,
        outcome |-> IF threw THEN "threw" ELSE "rendered",
        src |-> src,
        stage |-> st,
        shown |-> IF threw THEN NoMat
                  ELSE IF upsample THEN Mat(vid.w, vid.h, st.ret.ch, st.ret.data \o <<"resize">>)
                  ELSE st.ret,
        ctl |-> IF threw THEN "none" ELSE Adjustment(c, in.elapsed),
        count |-> 0,
        procSets |-> <<TRUE, FALSE>>,
        timed |-> ~threw,
        resched |-> TRUE]

\* A draw() without the finally block: setIsProcessing(false) is never called.
ProcessFrameKeepsFlag(c, vid, in, pw, ph, sized) ==
    LET src == Mat(pw, ph, 4, <<"frame">>)
        st == cartoonizeImage(src, c.filterParams, c.processingQuality, in.sf)
        upsample == Upsamples(pw, ph, vid)
        threw == \/ upsample /\ in.df \in {"resize", "imshow"}
                 \/ ~upsample /\ in.df = "imshow"
    IN [live |-> IF threw
                 THEN st.live \cup {"src", "result"} \cup (IF upsample THEN {"resized"} ELSE {})
                 ELSE st.live,
        canvas |-> sized,
        outcome |-> IF threw THEN "threw" ELSE "rendered",
        src |-> src,
        stage |-> st,
        shown |-> IF threw THEN NoMat
                  ELSE IF upsample THEN Mat(vid.w, vid.h, st.ret.ch, st.ret.data \o <<"resize">>)
                  ELSE st.ret,
        ctl |-> IF threw THEN "none" ELSE Adjustment(c, in.elapsed),
        count |-> 0,
        procSets |-> <<TRUE>>,
        timed |-> ~threw,
        resched |-> TRUE]

\* draw() from cartoonizeImage on: src holds the captured frame (pw x ph, RGBA).
ProcessFrame(c, vid, in, pw, ph, sized) ==
    LET src == Mat(pw, ph, 4, <<"frame">>)
        st == cartoonizeImage(src, c.filterParams, c.processingQuality, in.sf)
        upsample == Upsamples(pw, ph, vid)
        threw == \/ upsample /\ in.df \in {"resize", "imshow"}
                 \/ ~upsample /\ in.df = "imshow"
    IN [live |-> IF threw
                 THEN st.live \cup {"src", "result"} \cup (IF upsample THEN {"resized"} ELSE {})
                 ELSE st.live,
        canvas |-> sized,
        outcome |-> IF threw THEN "threw" ELSE "rendered",
        src |-> src,
        stage |-> st,
        shown |-> IF threw THEN NoMat
                  ELSE IF upsample THEN Mat(vid.w, vid.h, st.ret.ch, st.ret.data \o <<"resize">>)
                  ELSE st.ret,
        ctl |-> IF threw THEN "none" ELSE Adjustment(c, in.elapsed),
        count |-> 0,
        procSets |-> <<TRUE, FALSE>>,
        timed |-> ~threw,
        resched |-> TRUE]

\* A canvas that keeps the size it was first given.
CanvasSizeKept(cvs, vid) == cvs

\* if (canvas.width !== width || canvas.height !== height) { canvas.width = width; ... }
CanvasSize(cvs, vid) ==
    IF cvs.w # vid.w \/ cvs.h # vid.h THEN [w |-> vid.w, h |-> vid.h] ELSE cvs

\* A draw() that processes a frame of zero width or height.
DegenerateNever(vid) == FALSE

\* if (video.videoWidth === 0 || video.videoHeight === 0): nothing to process.
Degenerate(vid) == vid.w = 0 \/ vid.h = 0


\* const draw = () => { ... }: one animation-frame callback with closure c, given the
\* skip counter, the video and canvas elements and the environment's choices.
DrawResult(c, count, vid, cvs, in) ==
    IF ~vid.ready THEN EarlyDraw("notReady", count, cvs, <<>>)
    ELSE IF SkipsTick(count, c) THEN EarlyDraw("skipped", count + 1, cvs, <<>>)
    ELSE IF c.isProcessing THEN EarlyDraw("busy", 0, cvs, <<>>)
    ELSE IF Degenerate(vid) THEN EarlyDraw("zeroDim", 0, cvs, <<TRUE, FALSE, FALSE>>)
    ELSE LET pw == ProcessSize(vid.w, c.processingQuality)
             ph == ProcessSize(vid.h, c.processingQuality)
             sized == CanvasSize(cvs, vid)
         IN IF in.df = "noCtx" THEN EarlyDraw("noCtx", 0, sized, <<TRUE, FALSE, FALSE>>)
            ELSE IF in.df = "capture" \/ pw = 0 \/ ph = 0
            THEN EarlyDraw("threw", 0, sized, <<TRUE, FALSE>>)
            ELSE IF in.df = "empty" THEN EarlyDraw("empty", 0, sized, <<TRUE, FALSE, FALSE>>)
            ELSE ProcessFrame(c, vid, in, pw, ph, sized)

\* requestId = requestAnimationFrame(draw) at the end of draw(): the callback that
\* just ran is scheduled again under the loop's handle.
RequestAnimationFrame(callbacks, r, resched) ==
    IF resched THEN (callbacks \ {r}) \cup {[c |-> r.c, id |-> r.id]} ELSE callbacks \ {r}

\* The run of skipped ready ticks since the last processed tick, kept while the
\* frameSkip cell and the loop's captured frameSkip both stay at the value fs
\* (fs = 0: no such run).
NextSkipRun(d, c) ==
    IF d.outcome = "notReady" THEN skipRun
    ELSE IF d.stage.path # "none"
    THEN IF c.frameSkip = frameSkip THEN [n |-> 0, fs |-> frameSkip] ELSE [n |-> 0, fs |-> 0]
    ELSE IF d.outcome = "skipped" /\ skipRun.fs # 0 /\ c.frameSkip = skipRun.fs
            /\ frameSkip = skipRun.fs
    THEN [n |-> skipRun.n + 1, fs |-> skipRun.fs]
    ELSE [n |-> 0, fs |-> 0]

\* The skipped ready ticks between the previous processed tick and this one, when
\* frameSkip stayed the same from that tick to this one; -1 otherwise.
GapOf(d, c) ==
    IF d.stage.path # "none" /\ skipRun.fs # 0 /\ c.frameSkip = skipRun.fs
       /\ frameSkip = skipRun.fs
    THEN skipRun.n ELSE -1

\* The scheduled callback r fires.
Draw(r, in) ==
    \E d \in {DrawResult(r.c, frameSkipCountRef, video, canvas, in)} :
       /\ UNCHANGED <<reactState, video, effect, env, camera>>
       /\ d.ctl # "none" => Len(pending.frameSkip) < MaxPending
       /\ d.ctl = "inc" => ApplyFrameSkipOps(frameSkip, pending.frameSkip) < FrameSkipCap
       /\ frameSkipCountRef' = d.count
       /\ canvas' = d.canvas
       /\ pending' = [pending EXCEPT
              !.isProcessing = IF d.procSets = <<>> THEN @ ELSE <<d.procSets[Len(d.procSets)]>>,
              !.lastProcessTime = IF d.timed THEN <<in.elapsed>> ELSE @,
              !.frameSkip = IF d.ctl = "inc" THEN Append(@, IncOp)
                            ELSE IF d.ctl = "dec" THEN Append(@, DecOp) ELSE @]
       /\ raf' = RequestAnimationFrame(raf, r, d.resched)
       /\ lastTick' = [sf |-> in.sf, live |-> d.live, fs |-> r.c.frameSkip, c |-> r.c,
                       id |-> r.id,
                       outcome |-> d.outcome,
                       current |-> effect.active /\ effect.id = r.id /\ effect.c = r.c,
                       stale |-> Deps(r.c) # Deps(CurrentClosure),
                       df |-> in.df, src |-> d.src, stage |-> d.stage, shown |-> d.shown,
                       elapsed |-> IF d.timed THEN in.elapsed ELSE 0,
                       ctl |-> d.ctl, gap |-> GapOf(d, r.c)]
       /\ skipRun' = NextSkipRun(d, r.c)

\* The <video> element's state changes: data arrives or stalls, the track's
\* resolution changes.
VideoEvent(v) ==
    /\ env.mounted
    /\ video # v
    /\ video' = v
    /\ lastTick' = NoTick
    /\ UNCHANGED <<reactState, pending, frameSkipCountRef, canvas, effect, raf, env, skipRun,
                   camera>>

\* ------------------------------------------- the earlier revision (src/App.tsx)
\* What cv.cvtColor does with a grayscale code: COLOR_RGB2GRAY and COLOR_RGBA2GRAY
\* both weigh the first three channels of the source in R, G, B order (the channel
\* count is read from the Mat); the BGR codes weigh them in the opposite order.
CvtGray(code) == IF code \in {"RGB2GRAY", "RGBA2GRAY"} THEN "gray" ELSE "grayBGR"

\* The cv calls of the earlier cartoonizeImage, whose parameters are literals.
OldStepCall(k, img) ==
    CASE k = 1 -> [fn |-> IF img.ch # 3 THEN "cvtColor:RGBA2RGB" ELSE "copyTo",
                   from |-> <<"img">>, args |-> <<>>]
      [] k = 2 -> [fn |-> "bilateralFilter", from |-> <<"imgRGB">>, args |-> <<7, 75, 75>>]
      [] k = 3 -> [fn |-> "cvtColor:RGBA2GRAY", from |-> <<"imgRGB">>, args |-> <<>>]
      [] k = 4 -> [fn |-> "medianBlur", from |-> <<"imgGray">>, args |-> <<5>>]
      [] k = 5 -> [fn |-> "adaptiveThreshold", from |-> <<"imgBlur">>, args |-> <<255, 9, 2>>]
      [] k = 6 -> [fn |-> "cvtColor:GRAY2RGB", from |-> <<"imgEdge">>, args |-> <<>>]
      [] OTHER -> [fn |-> "bitwise_and", from |-> <<"imgColor", "imgEdgeColor">>, args |-> <<>>]

\* The pixels of the earlier cartoonizeImage's result.
OldCartoonData(img) ==
    RgbData(img) \o <<"smooth", ToString(7), ToString(75), ToString(75)>>
        \o RgbData(img) \o <<CvtGray("RGBA2GRAY"), "denoise", ToString(5), "binarize",
                             ToString(9), ToString(2), "expand">>
        \o <<"and">>

\* function cartoonizeImage(img) of the earlier revision; sf is the primitive the
\* environment makes throw.
OldCartoonizeImage(img, sf) ==
    LET T == {k \in 1..7 : sf = StepName[k]}
        t == IF T = {} THEN 0 ELSE CHOOSE k \in T : \A j \in T : k <= j
        n == IF t = 0 THEN 7 ELSE t
        calls == [k \in 1..n |-> OldStepCall(k, img)]
    IN IF t # 0
       THEN [calls |-> calls \o <<[fn |-> "copyTo", from |-> <<"img">>, args |-> <<>>]>>,
             ret |-> img, path |-> "fallback", live |-> {BufName[j] : j \in 1..t}]
       ELSE [calls |-> calls, ret |-> Mat(img.w, img.h, 3, OldCartoonData(img)),
             path |-> "full", live |-> {}]

\* draw() of the earlier revision: the frame is captured at the video's size, filtered
\* and shown; there is no skipping, no tier and no measurement.
OldDraw(vid, in) ==
    LET none == [outcome |-> "notReady", src |-> NoMat, stage |-> NoStage, shown |-> NoMat]
        src == Mat(vid.w, vid.h, 4, <<"frame">>)
        st == OldCartoonizeImage(src, in.sf)
    IN IF ~vid.ready THEN none
       ELSE IF vid.w = 0 \/ vid.h = 0 THEN [none EXCEPT !.outcome = "zeroDim"]
       ELSE IF in.df = "noCtx" THEN [none EXCEPT !.outcome = "noCtx"]
       ELSE IF in.df = "capture" THEN [none EXCEPT !.outcome = "threw"]
       ELSE IF in.df = "empty" THEN [none EXCEPT !.outcome = "empty"]
       ELSE IF in.df = "imshow"
       THEN [outcome |-> "threw", src |-> src, stage |-> st, shown |-> NoMat]
       ELSE [outcome |-> "rendered", src |-> src, stage |-> st, shown |-> st.ret]


\* ------------------------------------------------------- specifications
\* The scheduling of the loop: every handler; no primitive is made to throw, and
\* the measured time lies between the two thresholds.
Tick ==
    \E r \in raf, e \in {75} :
        Draw(r, [sf |-> "none", df |-> "none", elapsed |-> e])

Resize == \E n \in BOOLEAN : checkMobile(n)

Preset == \E name \in {"soft", "normal"} : applyPreset(name)

VideoChange ==
    \E v \in {[w |-> 0, h |-> 0, ready |-> FALSE],
              [w |-> 640, h |-> 480, ready |-> TRUE]} : VideoEvent(v)

Next ==
    \/ Mount
    \/ OpenCVReady
    \/ CameraInitialized
    \/ StreamAcquired
    \/ ReinitCamera
    \/ Resize
    \/ CycleQuality
    \/ Preset
    \/ VideoChange
    \/ Render
    \/ FlushEffects
    \/ Tick

Spec == Init /\ [][Next]_vars

\* The controller: the handlers that start the loop, the device class, and ticks
\* whose measured time is below or above both thresholds.
TickCtl ==
    \E r \in raf, e \in {30, 120} : Draw(r, [sf |-> "none", df |-> "none", elapsed |-> e])

VideoStart == VideoEvent([w |-> 640, h |-> 480, ready |-> TRUE])

NextCtl ==
    \/ Mount
    \/ OpenCVReady
    \/ CameraInitialized
    \/ StreamAcquired
    \/ Resize
    \/ VideoStart
    \/ Render
    \/ FlushEffects
    \/ TickCtl

SpecCtl == Init /\ [][NextCtl]_vars

\* The pipeline: the handlers that start the loop, the quality button, two presets,
\* two intensities, a tick in which one call throws (or none does), and a measured
\* time between the thresholds.
TickStage ==
    \E r \in raf, sf \in StageFaults, df \in DrawFaults :
        /\ sf = "none" \/ df = "none"
        /\ Draw(r, [sf |-> sf, df |-> df, elapsed |-> 75])

IntensityChange == \E v \in {0, 5} : SetIntensity(v)

\* getUserMedia resolves once: the camera is opened and not switched.
StreamFirst ==
    /\ stream = 0
    /\ pending.stream = <<>>
    /\ StreamAcquired

\* A wide window; the user agent decides the device class.
InitStage ==
    /\ Init
    /\ ~env.narrow

VideoChangeAny ==
    \E v \in {[w |-> 0, h |-> 0, ready |-> TRUE], [w |-> 640, h |-> 480, ready |-> TRUE]} :
        VideoEvent(v)

NextStage ==
    \/ Mount
    \/ OpenCVReady
    \/ CameraInitialized
    \/ StreamFirst
    \/ CycleQuality
    \/ Preset
    \/ IntensityChange
    \/ VideoChangeAny
    \/ Render
    \/ FlushEffects
    \/ TickStage

SpecStage == InitStage /\ [][NextStage]_vars

\* Progress: the loop on a started camera, ticks in which the capture yields nothing,
\* the capture throws, a stage primitive throws or the render throws, and measured
\* times between and above the thresholds.
TickLive ==
    \E r \in raf, sf \in {"none", "smooth"}, df \in {"none", "capture", "empty", "imshow"},
       e \in {75, 120} :
        /\ sf = "none" \/ df = "none"
        /\ Draw(r, [sf |-> sf, df |-> df, elapsed |-> e])

\* A tick in which nothing throws and that gets past the skip test to the canvas.
GoodTick ==
    \E r \in raf :
        /\ Draw(r, [sf |-> "none", df |-> "none", elapsed |-> 75])
        /\ lastTick'.outcome = "rendered"

NextLive ==
    \/ Mount
    \/ OpenCVReady
    \/ CameraInitialized
    \/ StreamFirst
    \/ VideoStart
    \/ Render
    \/ FlushEffects
    \/ TickLive

\* The browser runs every scheduled animation-frame callback, and the faults are
\* transient: again and again a tick finds nothing that throws.
SpecLive == InitStage /\ [][NextLive]_vars /\ WF_vars(TickLive) /\ SF_vars(GoodTick)

\* The controller under an alternating load on a mobile-class device: after a first
\* measured time that is short or long, the measured times of the processed ticks
\* alternate 120, 30, 120, 30, ...
AlternateElapsed(last) == IF last = 120 THEN {30} ELSE IF last = 30 THEN {120} ELSE {30, 120}

TickAlt ==
    \E r \in raf, e \in AlternateElapsed(Rendered(lastProcessTime, pending.lastProcessTime)) :
        Draw(r, [sf |-> "none", df |-> "none", elapsed |-> e])

InitAlt ==
    /\ Init
    /\ IsMobileDevice(env)

NextAlt ==
    \/ Mount
    \/ OpenCVReady
    \/ CameraInitialized
    \/ StreamFirst
    \/ VideoStart
    \/ Render
    \/ FlushEffects
    \/ TickAlt

SpecAlt == InitAlt /\ [][NextAlt]_vars


\* The track's resolution: the camera starts at 640x480 and, once frames of one
\* resolution have been shown, switches between 640x480 and 1280x720.
ResolutionChange ==
    \E v \in {[w |-> 640, h |-> 480, ready |-> TRUE], [w |-> 1280, h |-> 720, ready |-> TRUE]} :
        /\ video.ready
        /\ canvas = [w |-> video.w, h |-> video.h]
        /\ VideoEvent(v)

VideoFirst ==
    /\ ~video.ready
    /\ VideoStart

NextVideo ==
    \/ Mount
    \/ OpenCVReady
    \/ CameraInitialized
    \/ StreamFirst
    \/ CycleQuality
    \/ VideoFirst
    \/ ResolutionChange
    \/ Render
    \/ FlushEffects
    \/ Tick

SpecVideo == Init /\ [][NextVideo]_vars

\* The filter parameters: every preset button, every position of the intensity
\* slider, and the other five sliders at either end of their ranges.
Ends(S) == {v \in S : (\A u \in S : v <= u) \/ (\A u \in S : v >= u)}

PresetAny == \E name \in PresetNames : applyPreset(name)

IntensityAny == \E v \in IntensitySlider : SetIntensity(v)

BilateralDEnds == \E v \in Ends(BilateralDSlider) : SetBilateralD(v)

SigmaEnds == \E v \in Ends(SigmaSlider) : SetSigma(v)

MedianBlurEnds == \E v \in Ends(MedianBlurSlider) : SetMedianBlur(v)

AdaptiveBlockSizeEnds == \E v \in Ends(AdaptiveBlockSizeSlider) : SetAdaptiveBlockSize(v)

AdaptiveCEnds == \E v \in Ends(AdaptiveCSlider) : SetAdaptiveC(v)

NextParams ==
    \/ Mount
    \/ Render
    \/ FlushEffects
    \/ PresetAny
    \/ IntensityAny
    \/ BilateralDEnds
    \/ SigmaEnds
    \/ MedianBlurEnds
    \/ AdaptiveBlockSizeEnds
    \/ AdaptiveCEnds

SpecParams == InitStage /\ [][NextParams]_vars

\* The thresholds: the handlers that start the loop on either device class, the
\* quality button, and ticks whose measured time is on, just below or just above a
\* threshold.
TickBand ==
    \E r \in raf, e \in {49, 50, 100, 101} :
        Draw(r, [sf |-> "none", df |-> "none", elapsed |-> e])

NextBand ==
    \/ Mount
    \/ OpenCVReady
    \/ CameraInitialized
    \/ StreamFirst
    \/ CycleQuality
    \/ VideoStart
    \/ Render
    \/ FlushEffects
    \/ TickBand

SpecBand == Init /\ [][NextBand]_vars

\* One tick's reads: a mobile-class device, the quality button, two presets (one
\* that blends), and ticks whose measured time is below or above both thresholds.
NextSnap ==
    \/ Mount
    \/ OpenCVReady
    \/ CameraInitialized
    \/ StreamFirst
    \/ VideoFirst
    \/ CycleQuality
    \/ Preset
    \/ Render
    \/ FlushEffects
    \/ TickCtl

SpecSnap == InitAlt /\ [][NextSnap]_vars

\* The processing size: the quality button and a track of any small resolution,
\* which changes once frames of the current one have been shown.
ResolutionAny ==
    \E w \in 1..MaxDim, h \in 1..MaxDim :
        /\ video.ready => canvas = [w |-> video.w, h |-> video.h]
        /\ VideoEvent([w |-> w, h |-> h, ready |-> TRUE])

NextSize ==
    \/ Mount
    \/ OpenCVReady
    \/ CameraInitialized
    \/ StreamFirst
    \/ CycleQuality
    \/ ResolutionAny
    \/ Render
    \/ FlushEffects
    \/ Tick

SpecSize == InitStage /\ [][NextSize]_vars

\* The camera: device selections, device-class and fullscreen changes, and
\* getUserMedia calls that resolve or reject at any later time.
SelectAnyDevice == \E d \in 1..MaxDevices : SelectDevice(d)

NextCam ==
    \/ Mount
    \/ OpenCVReady
    \/ CameraInitialized
    \/ StreamAcquired
    \/ AcquireFailed
    \/ SelectAnyDevice
    \/ FullscreenChange
    \/ Resize
    \/ Render
    \/ FlushEffects

SpecCam == Init /\ [][NextCam]_vars


\* The kernel sizes: every preset button and every position of the three kernel
\* sliders.
BilateralDAny == \E v \in BilateralDSlider : SetBilateralD(v)

MedianBlurAny == \E v \in MedianBlurSlider : SetMedianBlur(v)

AdaptiveBlockSizeAny == \E v \in AdaptiveBlockSizeSlider : SetAdaptiveBlockSize(v)

NextKernel ==
    \/ Mount
    \/ Render
    \/ FlushEffects
    \/ PresetAny
    \/ BilateralDAny
    \/ MedianBlurAny
    \/ AdaptiveBlockSizeAny

SpecKernel == InitStage /\ [][NextKernel]_vars


\* ------------------------------------------------------------ properties

\* C1: in every reachable state the frameSkip cell is an integer in [1,4],
\* whatever ticks, elapsed times, device-class detections and renders of queued
\* frameSkip updates came before.
C1_FrameSkipInRange == frameSkip \in 1..MaxFrameSkip

\* The kernel sizes among the arguments of a cv call.
KernelArgs(call) ==
    IF call.fn \in {"medianBlur", "bilateralFilter"} THEN {call.args[1]}
    ELSE IF call.fn = "adaptiveThreshold" THEN {call.args[2]}
    ELSE {}

\* C2: every kernel size that cartoonizeImage passes to a primitive (bilateralFilter's d,
\* medianBlur's ksize, adaptiveThreshold's blockSize), after the tier's scaling of an odd
\* configured value >= 3, is an odd integer >= 3.
C2_KernelsOddAtLeast3 ==
    \A k \in DOMAIN lastTick.stage.calls :
        \A n \in KernelArgs(lastTick.stage.calls[k]) : n >= MinKernel /\ n % 2 = 1

\* C3: when a primitive call inside cartoonizeImage throws, at whichever step, the
\* function returns a Mat equal to its input, and the tick, unless a call of draw itself
\* (cv.resize, cv.imshow) throws as well, shows that Mat on the canvas at the video's size.
C3_FallbackReturnsInputAndRenders ==
    lastTick.stage.path = "fallback" =>
        /\ lastTick.stage.ret = lastTick.src
        /\ lastTick.df \notin {"resize", "imshow"} =>
              /\ lastTick.outcome = "rendered"
              /\ lastTick.shown.data \in {lastTick.src.data, lastTick.src.data \o <<"resize">>}
              /\ lastTick.shown.w = canvas.w /\ lastTick.shown.h = canvas.h
              /\ canvas.w = video.w /\ canvas.h = video.h

C3_Witness ==
    /\ lastTick.stage.path = "fallback"
    /\ lastTick.sf = "blend"
    /\ lastTick.outcome = "rendered"
    /\ lastTick.shown.data = <<"frame", "resize">>

\* C4: on every return path of cartoonizeImage, the fallback path included, every Mat the
\* invocation allocated, except the returned one, has been deleted.
C4_StageReleasesIntermediates == lastTick.stage.live = {}

\* C5: on every exit path of a tick that reached processing, exceptions included, the
\* Mats draw created (src, the stage's result, resized) have been deleted.
C5_TickReleasesScratch == lastTick.live \cap {"src", "result", "resized"} = {}

\* The tick just run ended without showing a frame though it passed the skip test.
FailedTick == lastTick.outcome \in {"threw", "noCtx", "empty", "zeroDim"}

\* C6: every tick, whatever its exit path, leaves the loop's next tick scheduled; and a
\* tick that fails (no 2d context, the capture throws or yields nothing, the render
\* throws) is followed by a later tick that shows a frame on the canvas.
C6_LoopGoesOn ==
    /\ [](lastTick.outcome # "none" => \E r \in raf : r.id = lastTick.id)
    /\ (FailedTick ~> (lastTick.outcome = "rendered"))

C6_Witness ==
    /\ lastTick.outcome = "threw"
    /\ lastTick.df = "imshow"
    /\ \E r \in raf : r.id = lastTick.id

\* C7: the effect's cleanup cancels the loop's scheduled callback: every scheduled callback
\* belongs to the loop the effect last started, and every tick that runs is one of that
\* loop and not of a loop whose cleanup has run.
C7_NoTickAfterCleanup ==
    /\ \A r \in raf : effect.active /\ r.id = effect.id /\ r.c = effect.c
    /\ lastTick.current

C7_Witness ==
    /\ ~effect.active
    /\ lastProcessTime # 0
    /\ stream = 0
    /\ raf = {}

\* C8: at most one tick is scheduled at any moment, across any sequence of configuration
\* changes and loop restarts.
C8_AtMostOnePendingTick == Cardinality(raf) <= 1

C8_Witness ==
    /\ effect.active
    /\ effect.c.filterParams # InitialFilterParams
    /\ lastTick.outcome = "rendered"
    /\ lastTick.id = effect.id
    /\ Cardinality(raf) = 1

\* C9: while frameSkip stays at N, in the state cell and in the running loop alike, the
\* ready ticks between two consecutive ticks that run cartoonizeImage number exactly N - 1:
\* the stage runs on every N-th ready tick.
C9_EveryNthReadyTick == lastTick.gap # -1 => lastTick.gap = lastTick.fs - 1

C9_Witness ==
    /\ lastTick.gap = 3
    /\ lastTick.fs = MaxFrameSkip
    /\ lastTick.outcome = "rendered"

\* C10: once the mount has seeded processingQuality, no window or device-class event
\* changes it: a step that changes the window leaves processingQuality as it was.
C10_TierPersists ==
    [][(env.mounted /\ pending.processingQuality = <<>> /\ env' # env)
          => processingQuality' = processingQuality]_vars

\* The cv calls of the smoothing, luminance, denoise, binarize, combine and blend steps.
FilterCalls ==
    {"medianBlur", "bilateralFilter", "cvtColor:RGB2GRAY", "adaptiveThreshold",
     "cvtColor:GRAY2RGB", "bitwise_and", "addWeighted"}

\* C11: an invocation of cartoonizeImage with intensity 0 makes none of the smoothing,
\* luminance, denoise, binarize, combine or blend calls, under every quality tier and
\* whether or not its color conversion throws.
C11_ZeroIntensitySkipsFilter ==
    (lastTick.stage.path # "none" /\ lastTick.c.filterParams.intensity = 0) =>
        \A k \in DOMAIN lastTick.stage.calls : lastTick.stage.calls[k].fn \notin FilterCalls

C11_Witness ==
    /\ lastTick.stage.path = "zero"
    /\ lastTick.c.processingQuality = "low"
    /\ Len(lastTick.stage.calls) = 2

\* C12: with intensity 0, cartoonizeImage returns a copy of the 3-channel color buffer of
\* step 1 (imgRGB), the channel layout of the buffers returned with intensity > 0.
C12_ZeroIntensityReturnsColor3 ==
    lastTick.stage.path = "zero" =>
        /\ lastTick.stage.ret.ch = 3
        /\ lastTick.stage.ret.data = RgbData(lastTick.src)


\* C13: on a mobile-class device, under measured times alternating 120, 30, 120,
\* 30, ..., frameSkip and the value its queued updates lead to stay within 1..4.
C13_AlternationStaysInRange ==
    isMobile =>
        /\ frameSkip \in 1..MaxFrameSkip
        /\ ApplyFrameSkipOps(frameSkip, pending.frameSkip) \in 1..MaxFrameSkip

\* C14: a tick that finds the video without a ready frame, or with zero width or
\* height, calls neither cartoonizeImage nor the canvas, throws nothing, and
\* schedules draw() again.
C14_DegenerateTickRetries ==
    (lastTick.outcome # "none" /\ (~video.ready \/ video.w = 0 \/ video.h = 0)) =>
        /\ lastTick.stage.path = "none"
        /\ lastTick.shown = NoMat
        /\ lastTick.outcome # "threw"
        /\ \E r \in raf : r.id = lastTick.id /\ r.c = lastTick.c

C14_Witness ==
    /\ lastTick.outcome = "zeroDim"
    /\ video.ready
    /\ video.w = 0
    /\ \E r \in raf : r.id = lastTick.id

\* C15: a tick that shows a frame takes the capture size, the size it scales the
\* result to and the canvas size from the video's resolution at that tick, also
\* when the resolution changed since the previous tick.
C15_TickUsesCurrentResolution ==
    lastTick.outcome = "rendered" =>
        /\ lastTick.src.w = ProcessSize(video.w, lastTick.c.processingQuality)
        /\ lastTick.src.h = ProcessSize(video.h, lastTick.c.processingQuality)
        /\ lastTick.shown.w = video.w
        /\ lastTick.shown.h = video.h
        /\ canvas = [w |-> video.w, h |-> video.h]

C15_Witness ==
    /\ lastTick.outcome = "rendered"
    /\ video = [w |-> 1280, h |-> 720, ready |-> TRUE]
    /\ lastTick.src.w = 960
    /\ lastTick.shown.w = 1280
    /\ canvas.h = 720

\* C16: whichever way cartoonizeImage returns (cartoon, blend, intensity 0, catch),
\* the Mat it returns has the width and height of the Mat it was given.
C16_StageKeepsDimensions ==
    lastTick.stage.path # "none" =>
        /\ lastTick.stage.ret.w = lastTick.src.w
        /\ lastTick.stage.ret.h = lastTick.src.h

C16_Witness ==
    /\ lastTick.stage.path = "fallback"
    /\ lastTick.src.w = 480
    /\ lastTick.stage.ret.w = 480
    /\ lastTick.stage.ret.h = 360

\* C17: from the initial value on, whatever presets are applied and sliders moved,
\* filterParams.intensity lies between 0 and 1 (0..10 tenths).
C17_IntensityInUnitRange == filterParams.intensity \in 0..10

C17_Witness ==
    /\ filterParams.intensity = 3
    /\ filterParams.bilateralSigmaColor = 120
    /\ filterParams.medianBlur = 15

\* frameSkip as the queued updates leave it: the value the next render shows.
FrameSkipValue == ApplyFrameSkipOps(frameSkip, pending.frameSkip)

\* C18: on a mobile-class device, with no frameSkip update awaiting a render, a tick
\* that shows a frame and measures more than 100 ms takes frameSkip to
\* min(4, frameSkip + 1).
C18_SlowCycleIncrements ==
    [][(/\ lastTick'.outcome = "rendered"
        /\ isMobile /\ lastTick'.c.isMobile
        /\ pending.frameSkip = <<>>
        /\ lastTick'.elapsed > HighLatencyMs)
       => FrameSkipValue' = (IF frameSkip + 1 < MaxFrameSkip
                             THEN frameSkip + 1 ELSE MaxFrameSkip)]_vars

\* C19: with no frameSkip update awaiting a render, a tick that shows a frame, to
\* which the increase does not apply and that measures less than 50 ms with
\* frameSkip above 1, takes frameSkip down by one.
C19_FastCycleDecrements ==
    [][(/\ lastTick'.outcome = "rendered"
        /\ ~(isMobile /\ lastTick'.elapsed > HighLatencyMs)
        /\ pending.frameSkip = <<>>
        /\ lastTick'.elapsed < LowLatencyMs
        /\ frameSkip > 1)
       => FrameSkipValue' = frameSkip - 1]_vars

ArgsOf(calls, fn) ==
    IF \E k \in DOMAIN calls : calls[k].fn = fn
    THEN calls[CHOOSE k \in DOMAIN calls : calls[k].fn = fn].args
    ELSE <<>>

\* C21: the skip test, the processing size, the kernel scaling, the blend weights
\* and the controller test of one tick all use the frameSkip, processingQuality,
\* filterParams and isMobile that the callback held when the tick began, and the
\* tick leaves those cells as they were: its updates wait for a render.
C21_TickReadsOneSnapshot ==
    [][lastTick'.outcome # "none" =>
          /\ \E r \in raf : r.id = lastTick'.id /\ r.c = lastTick'.c
          /\ UNCHANGED <<frameSkip, processingQuality, filterParams, isMobile>>
          /\ lastTick'.outcome = "skipped" <=>
                 (video.ready /\ frameSkipCountRef + 1 < lastTick'.c.frameSkip)
          /\ lastTick'.outcome = "rendered" =>
                 /\ lastTick'.src.w = ProcessSize(video.w, lastTick'.c.processingQuality)
                 /\ lastTick'.stage.path \in {"blend", "full"} =>
                        ArgsOf(lastTick'.stage.calls, "bilateralFilter")[1] =
                            AdjustedParams(lastTick'.c.filterParams,
                                           lastTick'.c.processingQuality).bilateralD
                 /\ lastTick'.stage.path = "blend" =>
                        ArgsOf(lastTick'.stage.calls, "addWeighted")[2] =
                            lastTick'.c.filterParams.intensity
                 /\ lastTick'.ctl = "inc" <=>
                        (/\ lastTick'.c.isMobile /\ lastTick'.elapsed > HighLatencyMs
                         /\ lastTick'.c.frameSkip < MaxFrameSkip)
                 /\ lastTick'.ctl = "dec" <=>
                        (/\ lastTick'.c.isMobile /\ lastTick'.elapsed < LowLatencyMs
                         /\ ~(lastTick'.elapsed > HighLatencyMs)
                         /\ lastTick'.c.frameSkip > 1)]_vars

C21_Witness ==
    /\ lastTick.outcome = "rendered"
    /\ lastTick.stage.path = "blend"
    /\ lastTick.ctl = "inc"
    /\ lastTick.stale
    /\ pending.frameSkip # <<>>

\* C22: while the loop runs, frameSkip (with its queued updates) and the last
\* measured time change only in a tick that showed a frame.
C22_OnlyTicksWriteController ==
    [][(/\ effect.active
        /\ \/ FrameSkipValue' # FrameSkipValue
           \/ Rendered(lastProcessTime', pending'.lastProcessTime) #
                  Rendered(lastProcessTime, pending.lastProcessTime))
       => lastTick'.outcome = "rendered"]_vars

\* The tick called fn in cartoonizeImage.
Called(fn) == \E k \in DOMAIN lastTick.stage.calls : lastTick.stage.calls[k].fn = fn

\* C23: the bilateralFilter diameter and the medianBlur size passed to cv are, on the
\* low tier, the halved values with floor 3 made odd (the block size being halved),
\* on the medium tier max(3, floor(0.75 * k)) each, on the high tier the
\* parameters as they are.
C23_TierScaling ==
    LET p == lastTick.c.filterParams
        q == lastTick.c.processingQuality
        d == ArgsOf(lastTick.stage.calls, "bilateralFilter")
        m == ArgsOf(lastTick.stage.calls, "medianBlur")
        b == ArgsOf(lastTick.stage.calls, "adaptiveThreshold")
        HalvedOdd(arg, k) ==
            /\ arg % 2 = 1
            /\ arg >= MinKernel
            /\ arg \in {Max(MinKernel, k \div 2), Max(MinKernel, k \div 2) + 1}
    IN /\ Called("bilateralFilter") =>
             d[1] = (IF q = "high" THEN p.bilateralD
                     ELSE IF q = "medium" THEN Max(MinKernel, (p.bilateralD * 3) \div 4)
                     ELSE d[1]) /\ (q = "low" => HalvedOdd(d[1], p.bilateralD))
       /\ Called("medianBlur") =>
             m[1] = (IF q = "high" THEN p.medianBlur
                     ELSE IF q = "medium" THEN Max(MinKernel, (p.medianBlur * 3) \div 4)
                     ELSE m[1]) /\ (q = "low" => HalvedOdd(m[1], p.medianBlur))
       /\ Called("adaptiveThreshold") =>
             b[2] \in (IF q = "low"
                       THEN {p.adaptiveBlockSize \div 2, Max(MinKernel, p.adaptiveBlockSize \div 2)}
                       ELSE {p.adaptiveBlockSize})

\* C24: a tick whose cartoonizeImage returned through its catch block records one
\* measured time and makes the frameSkip adjustment once, as a tick whose
\* cartoonizeImage succeeded does.
C24_FallbackTickIsTimed ==
    [][lastTick'.stage.path = "fallback" =>
          /\ lastTick'.outcome = "rendered"
          /\ pending'.lastProcessTime = <<lastTick'.elapsed>>
          /\ lastTick'.elapsed \in {30, 120}
          /\ pending'.frameSkip =
                 (IF lastTick'.c.isMobile /\ lastTick'.elapsed > HighLatencyMs
                  THEN IF lastTick'.c.frameSkip < MaxFrameSkip
                       THEN Append(pending.frameSkip, IncOp) ELSE pending.frameSkip
                  ELSE IF lastTick'.c.isMobile /\ lastTick'.elapsed < LowLatencyMs
                          /\ lastTick'.c.frameSkip > 1
                  THEN Append(pending.frameSkip, DecOp) ELSE pending.frameSkip)]_vars

C24_Witness ==
    /\ lastTick.stage.path = "fallback"
    /\ lastTick.outcome = "rendered"
    /\ lastTick.elapsed = 120
    /\ lastTick.ctl = "inc"
    /\ pending.lastProcessTime = <<120>>

\* C25: the Mat given to cv.imshow has the video's width and height; it is the
\* resized result exactly when the capture size differs from the video's, whichever
\* way cartoonizeImage returned.
C25_ShownAtVideoSize ==
    lastTick.outcome = "rendered" =>
        /\ lastTick.shown.w = video.w /\ lastTick.shown.h = video.h
        /\ IF lastTick.src.w # video.w \/ lastTick.src.h # video.h
           THEN lastTick.shown.data = lastTick.stage.ret.data \o <<"resize">>
           ELSE lastTick.shown = lastTick.stage.ret

C25_Witness ==
    /\ lastTick.outcome = "rendered"
    /\ lastTick.stage.path = "zero"
    /\ lastTick.src.w = 320
    /\ lastTick.shown.w = 640
    /\ lastTick.shown.h = 480

\* C26: the captured frame's width and height are floor(s * dimension) of the
\* video's, with s = 1 on the high tier, 3/4 on medium and 1/2 on low.
C26_ProcessSizeIsFloor ==
    LET q == lastTick.c.processingQuality
        IsFloor(pn, n) ==
            IF q = "high" THEN pn = n
            ELSE IF q = "medium" THEN 4 * pn <= 3 * n /\ 3 * n < 4 * pn + 4
            ELSE 2 * pn <= n /\ n < 2 * pn + 2
    IN lastTick.outcome = "rendered" =>
           /\ IsFloor(lastTick.src.w, video.w)
           /\ IsFloor(lastTick.src.h, video.h)

C26_Witness ==
    /\ lastTick.outcome = "rendered"
    /\ lastTick.c.processingQuality = "medium"
    /\ video.w = 5 /\ video.h = 3
    /\ lastTick.src.w = 3 /\ lastTick.src.h = 2

\* C27: a click on the quality button takes high to medium, medium to low and low
\* to high, so that three clicks in a row lead back to the tier before the first;
\* the click leaves frameSkip, its queued updates and filterParams as they are.
C27_QualityButtonCycles ==
    [][LET Requested(q) == CASE q = "high" -> "medium" [] q = "medium" -> "low"
                             [] q = "low" -> "high"
       IN CycleQuality =>
             /\ processingQuality' = Requested(processingQuality)
             /\ Requested(Requested(processingQuality')) = processingQuality
             /\ UNCHANGED <<frameSkip, filterParams>>
             /\ pending'.frameSkip = pending.frameSkip]_vars

C27_Witness ==
    /\ isMobile
    /\ processingQuality = "medium"
    /\ effect.active /\ effect.c.processingQuality = "medium"
    /\ frameSkip = 3
    /\ pending.frameSkip # <<>>
    /\ filterParams = filterPresets.soft

\* C28: with 0 < intensity < 1 cartoonizeImage returns addWeighted of imgRGB (weight
\* 1 - intensity) and cartoon (weight intensity); with intensity 1 it returns
\* cartoon, the output of bitwise_and, and does not call addWeighted.
C28_BlendOfColorAndCartoon ==
    LET st == lastTick.stage
        p == lastTick.c.filterParams
        a == AdjustedParams(p, lastTick.c.processingQuality)
        last == st.calls[Len(st.calls)]
    IN st.path \in {"blend", "full"} =>
           IF p.intensity < 10
           THEN /\ p.intensity > 0
                /\ st.path = "blend"
                /\ last.fn = "addWeighted"
                /\ last.from = <<"imgRGB", "cartoon">>
                /\ last.args = <<10 - p.intensity, p.intensity>>
                /\ st.ret.data = RgbData(lastTick.src) \o CartoonData(lastTick.src, a)
                                     \o <<"blend", ToString(10 - p.intensity),
                                          ToString(p.intensity)>>
           ELSE /\ st.path = "full"
                /\ ~Called("addWeighted")
                /\ last.fn = "bitwise_and"
                /\ st.ret.data = CartoonData(lastTick.src, a)

C28_Witness ==
    /\ lastTick.stage.path = "blend"
    /\ lastTick.c.filterParams.intensity = 6
    /\ lastTick.stage.calls[8].args = <<4, 6>>

C30_StylizedUnlessFault ==
    (lastTick.stage.path # "none" /\ lastTick.sf = "none") =>
        /\ Called("medianBlur") =>
               MedianBlurAccepts(ArgsOf(lastTick.stage.calls, "medianBlur")[1])
        /\ Called("adaptiveThreshold") =>
               AdaptiveThresholdAccepts(ArgsOf(lastTick.stage.calls, "adaptiveThreshold")[2])
        /\ lastTick.stage.path # "fallback"

\* C31: a tick that processes a frame does so with the filterParams,
\* processingQuality, frameSkip and isMobile of the last render, and an increment
\* is issued only by a tick whose frameSkip is the rendered one.
C31_NoTickWithPreviousConfiguration ==
    /\ lastTick.stage.path # "none" =>
           /\ lastTick.c.filterParams = filterParams
           /\ lastTick.c.processingQuality = processingQuality
           /\ lastTick.c.frameSkip = frameSkip
           /\ lastTick.c.isMobile = isMobile
    /\ lastTick.ctl = "inc" => lastTick.c.frameSkip = frameSkip

\* C32: off a mobile-class device frameSkip is 1, in the rendered state and in the
\* state the queued updates lead to, whatever ticks, measured times and resizes
\* came before.
C32_DesktopProcessesEveryFrame ==
    /\ ~isMobile => frameSkip = 1
    /\ ~Rendered(isMobile, pending.isMobile) => FrameSkipValue = 1

C32_Witness ==
    /\ ~isMobile /\ ~env.narrow /\ ~env.ua
    /\ lastTick.outcome = "rendered"
    /\ lastTick.elapsed = 120
    /\ ~lastTick.c.isMobile
    /\ frameSkip = 1 /\ pending.frameSkip = <<>>

\* C33: whatever the order of device selections, device-class changes, fullscreen
\* changes and getUserMedia completions, an acquired stream that is no longer the
\* stream cell's value (rendered or queued) has had its tracks stopped; and once no
\* getUserMedia call is outstanding and the queued stream is rendered, at most one
\* acquired stream has running tracks.
C33_ReplacedStreamsAreStopped ==
    /\ camera.live \subseteq {stream, Rendered(stream, pending.stream)}
    /\ (camera.acquiring = 0 /\ pending.stream = <<>>) => Cardinality(camera.live) <= 1

\* C34: a tick that passed the zero-size test (the video's width and height are
\* both nonzero) captures a frame whose width and height are both nonzero, on
\* every tier.
C34_ProcessSizeNonzero ==
    (lastTick.outcome \notin {"none", "notReady", "skipped", "busy", "zeroDim"}
        /\ video.w # 0 /\ video.h # 0)
    => /\ ProcessSize(video.w, lastTick.c.processingQuality) # 0
       /\ ProcessSize(video.h, lastTick.c.processingQuality) # 0

C36_BaseKernelsOddAtLeast3 ==
    \A k \in {filterParams.bilateralD, filterParams.medianBlur, filterParams.adaptiveBlockSize} :
        k % 2 = 1 /\ k >= 3

C36_Witness ==
    /\ env.mounted
    /\ filterParams.bilateralD = 19
    /\ filterParams.medianBlur = 11
    /\ filterParams.adaptiveBlockSize = 3
    /\ filterParams.adaptiveC = 0

\* C37: isProcessing is false in every render, in the values queued for the next
\* render, in the closure of the effect's last run and in every scheduled draw, so
\* no tick returns at draw's `if (isProcessing)`.
C37_NeverBusy ==
    /\ ~isProcessing
    /\ ~Rendered(isProcessing, pending.isProcessing)
    /\ ~effect.c.isProcessing
    /\ \A r \in raf : ~r.c.isProcessing
    /\ lastTick.outcome # "busy"

C37_Witness ==
    /\ lastTick.outcome = "rendered"
    /\ lastTick.c.frameSkip = 2
    /\ lastTick.gap = 1
    /\ pending.isProcessing = <<FALSE>>
    /\ ~lastTick.c.isProcessing
    /\ lastProcessTime # 0

\* C38: after every step frameSkipCountRef.current is an integer from 0 to 3; a tick
\* that finds the video not ready leaves it as it was; a tick that passes the skip
\* test sets it to 0; and, effect restarts included, no more than frameSkip - 1
\* ready ticks in a row are skipped while frameSkip stays the same.
C38_SkipCounterBounded ==
    [][/\ frameSkipCountRef' \in 0..(MaxFrameSkip - 1)
       /\ lastTick'.outcome = "notReady" => frameSkipCountRef' = frameSkipCountRef
       /\ lastTick'.outcome \notin {"none", "notReady", "skipped"} => frameSkipCountRef' = 0
       /\ skipRun'.fs # 0 => skipRun'.n <= skipRun'.fs - 1]_vars
====
